---- MODULE Spec2Model ----
(***************************************************************************)
(* Model of build_dataset.py: main() discovers closed Yes/No markets by    *)
(* paging the provider's catalog, fetches each market's candlesticks,      *)
(* derives the feature rows and writes them to numbered parquet            *)
(* partitions every WRITE_EVERY markets.                                    *)
(*                                                                         *)
(* Encodings.  An optional value (Python None, pandas NaN) is the empty    *)
(* tuple, a present value x is <<x>>.  A string on which the code does     *)
(* character work (labels) is a tuple of one-character strings.  Dollar    *)
(* amounts are integers in thousandths of a dollar (0.42 is 420); every    *)
(* amount drawn is even, so the mid price (bid + ask) / 2 is exact.        *)
(***************************************************************************)
EXTENDS Integers, Sequences, FiniteSets, TLC

VARIABLES
    catalog,           \* provider: the closed markets it serves, in catalog order
    WRITE_EVERY,       \* configuration: flush threshold (line 29)
    pc,                \* position of main()
    run,               \* how many times main() has been started
    error,             \* the exception that ended the run, "none" if none
    conn,              \* duckdb connection: "none", "open", "closed"
    suitable_markets,  \* line 39
    offset,            \* line 40
    idx,               \* 0-based index of the for loop at line 75
    all_dfs,           \* line 73: the accumulator
    file_counter,      \* line 74
    disk,              \* OUT_DIR: file number -> partition content
    view,              \* how many times the view 'features' was published
    page_reqs,         \* history: catalog-page requests, in order
    candle_reqs,       \* history: idx of each candlestick request, in order
    outcomes,          \* history: what happened to each visited market
    written,           \* history: file numbers written by this run, in order
    unslept,           \* TRUE iff a provider call was made and no sleep followed yet
    raw_rows,          \* feature derivation: the flattened observation rows
    df,                \* feature derivation: the data frame being derived
    fpc                \* feature derivation: position between lines 127 and 171

vars == <<catalog, WRITE_EVERY, pc, run, error, conn, suitable_markets, offset,
          idx, all_dfs, file_counter, disk, view, page_reqs, candle_reqs,
          outcomes, written, unslept, raw_rows, df, fpc>>

pipeVars == <<catalog, WRITE_EVERY, pc, run, error, conn, suitable_markets, offset,
              idx, all_dfs, file_counter, disk, view, page_reqs, candle_reqs,
              outcomes, written, unslept>>

featVars == <<raw_rows, df, fpc>>

----------------------------------------------------------------------------
(* Bounds of the model *)

MaxCatalog == 4        \* longest provider catalog of the pipeline runs
MaxWriteEvery == 3     \* largest flush threshold tried
MaxDiscCatalog == 6    \* longest catalog of the discovery runs
MaxRichCatalog == 1    \* longest catalog over every market shape
MaxRerunCatalog == 2   \* longest catalog of the runs that restart main()
MaxRuns == 2           \* main() is started at most this many times
MaxRows == 10          \* longest observation sequence of one market
MaxRichRows == 2       \* longest observation sequence over every quote shape

(* Program constants, scaled down so that the model's catalogs reach them *)

MAX_MARKETS == 4
PAGE_LIMIT == 2
ROLL_WINDOW == 7

----------------------------------------------------------------------------
(* Optional values and small helpers *)

None == <<>>
Some(x) == <<x>>
IsNone(o) == Len(o) = 0
Val(o) == o[1]

Min(a, b) == IF a < b THEN a ELSE b

Last(s) == s[Len(s)]

SeqsUpTo(S, n) == UNION {[1..k -> S] : k \in 0..n}

RECURSIVE SumSeq(_)
SumSeq(s) == IF s = <<>> THEN 0 ELSE Head(s) + SumSeq(Tail(s))

RECURSIVE Flatten(_)
Flatten(ss) == IF ss = <<>> THEN <<>> ELSE Head(ss) \o Flatten(Tail(ss))

----------------------------------------------------------------------------
(* Strings: str.lower() and str.strip() on the characters the labels use *)

LowerChar(c) ==
    CASE c = "Y" -> "y"
      [] c = "E" -> "e"
      [] c = "S" -> "s"
      [] c = "N" -> "n"
      [] c = "O" -> "o"
      [] c = "M" -> "m"
      [] OTHER -> c

Lower(s) == [i \in 1..Len(s) |-> LowerChar(s[i])]

RECURSIVE LStrip(_)
LStrip(s) == IF s # <<>> /\ Head(s) = " " THEN LStrip(Tail(s)) ELSE s

RECURSIVE RStrip(_)
RStrip(s) ==
    IF s # <<>> /\ Last(s) = " " THEN RStrip(SubSeq(s, 1, Len(s) - 1)) ELSE s

Strip(s) == RStrip(LStrip(s))

\* (x or ""): a None label and an empty label both give the empty string
OrEmpty(lbl) == IF IsNone(lbl) THEN <<>> ELSE Val(lbl)

sYes == <<"y", "e", "s">>
sNo == <<"n", "o">>

----------------------------------------------------------------------------
(* Market records of the provider *)

Side(lbl) == Some([label |-> lbl])

Market(cid, win, a, b, et) ==
    [condition_id |-> cid, winning_side |-> win, side_a |-> a, side_b |-> b,
     end_time |-> et]

\* the label spellings the discovery runs draw from: None, "", and words
Labels ==
    { None, Some(<<>>), Some(sYes), Some(<<"Y", "e", "s">>), Some(<<"N", "O">>),
      Some(<<"M", "a", "y", "b", "e">>) }

Sides == {None} \cup {Side(l) : l \in Labels}

RichMarkets ==
    { Market("c0", w, a, b, Some(100)) :
        w \in {None, Side(Some(<<"Y", "e", "s">>))}, a \in Sides, b \in Sides }

mYes == Market("c1", Side(Some(<<"Y", "e", "s">>)),
               Side(Some(<<"Y", "e", "s">>)), Side(Some(<<"N", "o">>)), Some(100))
mNoEnd == Market("c2", Side(Some(<<" ", "N", "o">>)),
                 Side(Some(<<"n", "o">>)), Side(Some(<<"Y", "E", "S">>)), None)
mOpen == Market("c3", None,
                Side(Some(<<"Y", "e", "s">>)), Side(Some(<<"N", "o">>)), Some(100))

PipelineMarkets == {mYes, mNoEnd, mOpen}

----------------------------------------------------------------------------
(* Discovery filter, lines 57-60 *)

Eligible_NoLower(cand) ==
    /\ ~IsNone(cand.winning_side)
    /\ ~IsNone(cand.side_a)
    /\ ~IsNone(cand.side_b)
    /\ LET a == OrEmpty(Val(cand.side_a).label)
           b == OrEmpty(Val(cand.side_b).label)
       IN <<a, b>> \in {<<sYes, sNo>>, <<sNo, sYes>>}

Eligible(cand) ==
    /\ ~IsNone(cand.winning_side)
    /\ ~IsNone(cand.side_a)
    /\ ~IsNone(cand.side_b)
    /\ LET a == Lower(OrEmpty(Val(cand.side_a).label))
           b == Lower(OrEmpty(Val(cand.side_b).label))
       IN <<a, b>> \in {<<sYes, sNo>>, <<sNo, sYes>>}

\* the for loop of lines 56-63 over one page, with its inner break
RECURSIVE ScanPage_NoBreak(_, _)
ScanPage_NoBreak(suitable, markets) ==
    IF markets = <<>> THEN suitable
    ELSE IF Eligible(Head(markets))
         THEN ScanPage_NoBreak(Append(suitable, Head(markets)), Tail(markets))
         ELSE ScanPage_NoBreak(suitable, Tail(markets))

RECURSIVE ScanPage(_, _)
ScanPage(suitable, markets) ==
    IF markets = <<>> THEN suitable
    ELSE IF Eligible(Head(markets))
         THEN LET s == Append(suitable, Head(markets))
              IN IF Len(s) >= MAX_MARKETS THEN s ELSE ScanPage(s, Tail(markets))
         ELSE ScanPage(suitable, Tail(markets))

\* the provider's answer to get_markets({limit: PAGE_LIMIT, offset: o})
Page(o) == SubSeq(catalog, o + 1, Min(o + PAGE_LIMIT, Len(catalog)))

NextOffset_PlusOne(o) == o + 1

NextOffset(o) == o + PAGE_LIMIT

\* the while condition of line 42
LoopGuard(n) == n < MAX_MARKETS

----------------------------------------------------------------------------
(* Candlestick responses of the provider *)

\* a quote field as the provider sends it: absent, a number, or a string
RNone == [t |-> "none", n |-> 0, s |-> ""]
RNum(v) == [t |-> "num", n |-> v, s |-> ""]
RStr(str) == [t |-> "str", n |-> 0, s |-> str]

\* float(s) of the strings the model draws; any other string does not parse
ParseFloat(str) ==
    CASE str = "1.30" -> Some(1300)
      [] str = "0.50" -> Some(500)
      [] OTHER -> None

\* pd.to_numeric(col, errors="coerce"), line 138
ToNumeric(raw) ==
    CASE raw.t = "num" -> Some(raw.n)
      [] raw.t = "str" -> ParseFloat(raw.s)
      [] OTHER -> None

\* one candlestick: the close_dollars of its three quotes
Quote(bid, ask, price) == [yes_bid |-> bid, yes_ask |-> ask, price |-> price]

Candle(ts, vol, q) == [end_period_ts |-> ts, volume |-> vol, quote |-> q]

\* a per-token stream: its candlesticks, then the token metadata trailer
Stream(cs, tok) == Append(cs, [token_id |-> tok])

\* lines 113-120: strip each stream's trailer, attach its token_id
FlattenStream(stream) ==
    LET token_id == Last(stream).token_id
        body == SubSeq(stream, 1, Len(stream) - 1)
    IN [i \in 1..Len(body) |->
            [end_period_ts |-> body[i].end_period_ts,
             volume |-> body[i].volume,
             token_id |-> token_id,
             price |-> body[i].quote.price,
             yes_ask |-> body[i].quote.yes_ask,
             yes_bid |-> body[i].quote.yes_bid]]

FlattenRows(streams) ==
    Flatten([k \in 1..Len(streams) |-> FlattenStream(streams[k])])

----------------------------------------------------------------------------
(* Feature derivation, lines 127-171.  A data frame is the sequence of its *)
(* rows in frame order; `index` is the pandas index of the row.            *)

\* lines 127-138: flatten the quotes to columns and coerce them to numbers
Normalize(rows) ==
    [i \in 1..Len(rows) |->
        [index |-> i - 1,
         end_period_ts |-> rows[i].end_period_ts,
         volume |-> rows[i].volume,
         token_id |-> rows[i].token_id,
         price_close |-> ToNumeric(rows[i].price),
         ask_close |-> ToNumeric(rows[i].yes_ask),
         bid_close |-> ToNumeric(rows[i].yes_bid)]]

HasBoth(r) == ~IsNone(r.bid_close) /\ ~IsNone(r.ask_close)

MidPrice_NoFallback(d) ==
    LET mid(r) == IF HasBoth(r)
                  THEN Some((Val(r.bid_close) + Val(r.ask_close)) \div 2)
                  ELSE None
        withp == [i \in 1..Len(d) |-> d[i] @@ [p_mkt |-> mid(d[i])]]
    IN SelectSeq(withp, LAMBDA r : ~IsNone(r.p_mkt))

\* lines 141-143: mid of bid and ask, else the price close; drop rows without
MidPrice(d) ==
    LET mid(r) == IF HasBoth(r)
                  THEN Some((Val(r.bid_close) + Val(r.ask_close)) \div 2)
                  ELSE None
        filled(r) == IF IsNone(mid(r)) THEN r.price_close ELSE mid(r)
        withp == [i \in 1..Len(d) |-> d[i] @@ [p_mkt |-> filled(d[i])]]
    IN SelectSeq(withp, LAMBDA r : ~IsNone(r.p_mkt))

Spread_NoClip(d) ==
    LET sp(r) == IF HasBoth(r)
                 THEN Some(Val(r.ask_close) - Val(r.bid_close))
                 ELSE None
    IN [i \in 1..Len(d) |-> d[i] @@ [spread |-> sp(d[i])]]

\* line 145: (ask - bid).clip(lower=0.0); NaN stays NaN
Spread(d) ==
    LET sp(r) == IF HasBoth(r)
                 THEN LET x == Val(r.ask_close) - Val(r.bid_close)
                      IN Some(IF x < 0 THEN 0 ELSE x)
                 ELSE None
    IN [i \in 1..Len(d) |-> d[i] @@ [spread |-> sp(d[i])]]

\* lines 79-83: the label of the market
YFinal(m) ==
    IF Lower(Strip(OrEmpty(Val(m.winning_side).label))) = sYes THEN 1 ELSE 0

\* lines 147-151: the market's attributes on every row
Attrs(d, m) ==
    [i \in 1..Len(d) |->
        d[i] @@ [y_final |-> YFinal(m),
                 condition_id |-> m.condition_id,
                 market_end_time |-> Val(m.end_time)]]

Clip01(x) == IF x < 0 THEN 0 ELSE IF x > 1000 THEN 1000 ELSE x

Clamp_UpperOnly(d) ==
    [i \in 1..Len(d) |->
        [d[i] EXCEPT !.p_mkt = Some(IF Val(@) > 1000 THEN 1000 ELSE Val(@))]]

\* line 163: p_mkt.clip(0.0, 1.0)
Clamp(d) ==
    [i \in 1..Len(d) |-> [d[i] EXCEPT !.p_mkt = Some(Clip01(Val(@)))]]

\* line 165
TimeToClose(d, m) ==
    [i \in 1..Len(d) |->
        d[i] @@ [time_to_close_sec |-> Val(m.end_time) - d[i].end_period_ts]]

\* line 167: sort_values("end_period_ts"); on frames this short the sort
\* keeps rows of equal key in frame order
RECURSIVE InsertByTs(_, _)
InsertByTs(r, s) ==
    IF s = <<>> THEN <<r>>
    ELSE IF r.end_period_ts < Head(s).end_period_ts
         THEN <<r>> \o s
         ELSE <<Head(s)>> \o InsertByTs(r, Tail(s))

RECURSIVE SortByTs(_)
SortByTs(d) ==
    IF d = <<>> THEN <<>>
    ELSE InsertByTs(Last(d), SortByTs(SubSeq(d, 1, Len(d) - 1)))

\* line 168: p_mkt.diff()
Diff(d) ==
    [i \in 1..Len(d) |->
        d[i] @@ [ret_1 |-> IF i = 1 THEN None
                           ELSE Some(Val(d[i].p_mkt) - Val(d[i - 1].p_mkt))]]

\* n (n - 1) times the sample variance of xs, n = Len(xs): the model's
\* stand-in for std(), which is its increasing function
VarNum(xs) ==
    LET n == Len(xs)
        sq == [i \in 1..n |-> xs[i] * xs[i]]
    IN n * SumSeq(sq) - SumSeq(xs) * SumSeq(xs)

\* the ret_1 values present in rows lo..hi
RetWindow(d, lo, hi) ==
    LET w == SubSeq(d, lo, hi)
        present == SelectSeq(w, LAMBDA r : ~IsNone(r.ret_1))
    IN [i \in 1..Len(present) |-> Val(present[i].ret_1)]

Rolling_Short(d) ==
    [i \in 1..Len(d) |->
        LET lo == IF i - (ROLL_WINDOW - 1) + 1 < 1 THEN 1 ELSE i - (ROLL_WINDOW - 1) + 1
            xs == RetWindow(d, lo, i)
        IN d[i] @@ [vol_7 |-> IF Len(xs) >= ROLL_WINDOW - 1
                               THEN Some(VarNum(xs)) ELSE None]]

\* line 169: ret_1.rolling(7).std(); min_periods is the window size, so a
\* window is scored only when it holds 7 values that are not NaN
Rolling(d) ==
    [i \in 1..Len(d) |->
        LET lo == IF i - ROLL_WINDOW + 1 < 1 THEN 1 ELSE i - ROLL_WINDOW + 1
            xs == RetWindow(d, lo, i)
        IN d[i] @@ [vol_7 |-> IF Len(xs) >= ROLL_WINDOW
                               THEN Some(VarNum(xs)) ELSE None]]

\* line 171
HadTrade(d) ==
    [i \in 1..Len(d) |-> d[i] @@ [had_trade |-> IF d[i].volume > 0 THEN 1 ELSE 0]]

\* lines 165-171
Sequential(d, m) == HadTrade(Rolling(Diff(SortByTs(TimeToClose(d, m)))))

\* lines 127-171 for market m
Derive(m, rows) ==
    Sequential(Clamp(Attrs(Spread(MidPrice(Normalize(rows))), m)), m)

----------------------------------------------------------------------------
(* The candlestick responses the pipeline runs draw from *)

qMid == Quote(RNum(400), RNum(600), RNone)
qPrice == Quote(RNone, RNone, RNum(420))
qNone == Quote(RStr("abc"), RNone, RNone)

Response(err, streams) == [err |-> err, streams |-> streams]

rTimeout == Response("ValueError", <<>>)
rCrash == Response("Exception", <<>>)
rNoData == Response("none", <<Stream(<<>>, "tokY")>>)
rAllNaN == Response("none", <<Stream(<<Candle(10, 0, qNone)>>, "tokY")>>)
rOne == Response("none", <<Stream(<<Candle(10, 5, qPrice)>>, "tokY")>>)
rTwo == Response("none", <<Stream(<<Candle(20, 5, qMid)>>, "tokY"),
                           Stream(<<Candle(10, 0, qPrice)>>, "tokN")>>)

CandleResponses == {rTimeout, rCrash, rNoData, rAllNaN, rOne, rTwo}

----------------------------------------------------------------------------
(* Batch persistence *)

\* lines 179 and 188: pd.concat(all_dfs, ignore_index=True); srcs keeps, for
\* the record, which markets of the run the rows came from
ConcatBatch(dfs) ==
    [rows |-> Flatten([k \in 1..Len(dfs) |-> dfs[k].rows]),
     srcs |-> [k \in 1..Len(dfs) |-> dfs[k].src]]

\* lines 180-182 and 189-191: COPY ... TO 'features_<n>.parquet' creates the
\* file, or replaces it when a file of that name is there
WriteParquet(d, n, batch) == (n :> batch) @@ d

FlushDue_Early(i) == i % WRITE_EVERY = 0

\* line 178
FlushDue(i) == (i + 1) % WRITE_EVERY = 0

\* line 89
LOOKBACK == 60 * 60 * 24 * 90

----------------------------------------------------------------------------
(* main() *)

InMemoryInit ==
    /\ pc = "start"
    /\ error = "none"
    /\ conn = "none"
    /\ suitable_markets = <<>>
    /\ offset = 0
    /\ idx = 0
    /\ all_dfs = <<>>
    /\ file_counter = 0
    /\ view = 0
    /\ page_reqs = <<>>
    /\ candle_reqs = <<>>
    /\ outcomes = <<>>
    /\ written = <<>>
    /\ unslept = FALSE

FeatIdle ==
    /\ raw_rows = <<>>
    /\ df = <<>>
    /\ fpc = "idle"

\* one run of main() against an empty OUT_DIR
Init ==
    /\ catalog \in SeqsUpTo(PipelineMarkets, MaxCatalog)
    /\ WRITE_EVERY \in 1..MaxWriteEvery
    /\ run = 1
    /\ disk = <<>>
    /\ InMemoryInit
    /\ FeatIdle

\* lines 36-40
Connect ==
    /\ pc = "start"
    /\ conn' = "open"
    /\ suitable_markets' = <<>>
    /\ offset' = 0
    /\ pc' = "discover"
    /\ UNCHANGED <<catalog, WRITE_EVERY, run, error, idx, all_dfs, file_counter,
                   disk, view, page_reqs, candle_reqs, outcomes, written, unslept>>
    /\ UNCHANGED featVars

PageReq(n, raised) ==
    [offset |-> offset, have |-> Len(suitable_markets), n |-> n, raised |-> raised]

\* lines 42-66: one turn of the while loop
FetchPage ==
    /\ pc = "discover"
    /\ LoopGuard(Len(suitable_markets))
    /\ LET markets == Page(offset)
       IN /\ page_reqs' = Append(page_reqs, PageReq(Len(markets), FALSE))
          /\ unslept' = FALSE
          /\ IF markets = <<>>
             THEN /\ pc' = "post"
                  /\ UNCHANGED <<suitable_markets, offset>>
             ELSE /\ suitable_markets' = ScanPage(suitable_markets, markets)
                  /\ offset' = NextOffset(offset)
                  /\ pc' = "discover"
    /\ UNCHANGED <<catalog, WRITE_EVERY, run, error, conn, idx, all_dfs,
                   file_counter, disk, view, candle_reqs, outcomes, written>>
    /\ UNCHANGED featVars

\* line 44 raising: nothing catches it, main() ends with the provider's error
PageFails ==
    /\ pc = "discover"
    /\ LoopGuard(Len(suitable_markets))
    /\ page_reqs' = Append(page_reqs, PageReq(0, TRUE))
    /\ unslept' = TRUE
    /\ error' = "ProviderError"
    /\ pc' = "aborted"
    /\ UNCHANGED <<catalog, WRITE_EVERY, run, conn, suitable_markets, offset, idx,
                   all_dfs, file_counter, disk, view, candle_reqs, outcomes, written>>
    /\ UNCHANGED featVars

ExitLoop_Spins ==
    /\ pc = "discover"
    /\ ~LoopGuard(Len(suitable_markets))
    /\ UNCHANGED pipeVars
    /\ UNCHANGED featVars

\* line 42 evaluating to False
ExitLoop ==
    /\ pc = "discover"
    /\ ~LoopGuard(Len(suitable_markets))
    /\ pc' = "post"
    /\ UNCHANGED <<catalog, WRITE_EVERY, run, error, conn, suitable_markets, offset,
                   idx, all_dfs, file_counter, disk, view, page_reqs, candle_reqs,
                   outcomes, written, unslept>>
    /\ UNCHANGED featVars

CheckSuitable_NoRaise ==
    /\ pc = "post"
    /\ pc' = "process"
    /\ all_dfs' = <<>>
    /\ file_counter' = 0
    /\ idx' = 0
    /\ UNCHANGED error
    /\ UNCHANGED <<catalog, WRITE_EVERY, run, conn, suitable_markets, offset, disk,
                   view, page_reqs, candle_reqs, outcomes, written, unslept>>
    /\ UNCHANGED featVars

\* lines 68-74
CheckSuitable ==
    /\ pc = "post"
    /\ IF suitable_markets = <<>>
       THEN /\ error' = "RuntimeError"
            /\ pc' = "aborted"
            /\ UNCHANGED <<all_dfs, file_counter, idx>>
       ELSE /\ pc' = "process"
            /\ all_dfs' = <<>>
            /\ file_counter' = 0
            /\ idx' = 0
            /\ UNCHANGED error
    /\ UNCHANGED <<catalog, WRITE_EVERY, run, conn, suitable_markets, offset, disk,
                   view, page_reqs, candle_reqs, outcomes, written, unslept>>
    /\ UNCHANGED featVars

\* the market of this turn of the for loop at line 75
m == suitable_markets[idx + 1]

InLoop == pc = "process" /\ idx < Len(suitable_markets)

CandleReq ==
    [idx |-> idx, condition_id |-> m.condition_id,
     start_time |-> Val(m.end_time) - LOOKBACK, end_time |-> Val(m.end_time)]

Outcome(kind, rows) == [kind |-> kind, rows |-> rows]

SkipNoEndTime_Fetches ==
    /\ InLoop
    /\ IsNone(m.end_time)
    /\ candle_reqs' = Append(candle_reqs,
                             [idx |-> idx, condition_id |-> m.condition_id,
                              start_time |-> 0 - LOOKBACK, end_time |-> 0])
    /\ outcomes' = Append(outcomes, Outcome("no_end_time", <<>>))
    /\ idx' = idx + 1
    /\ UNCHANGED <<catalog, WRITE_EVERY, pc, run, error, conn, suitable_markets,
                   offset, all_dfs, file_counter, disk, view, page_reqs,
                   written, unslept>>
    /\ UNCHANGED featVars

\* lines 85-87
SkipNoEndTime ==
    /\ InLoop
    /\ IsNone(m.end_time)
    /\ outcomes' = Append(outcomes, Outcome("no_end_time", <<>>))
    /\ idx' = idx + 1
    /\ UNCHANGED <<catalog, WRITE_EVERY, pc, run, error, conn, suitable_markets,
                   offset, all_dfs, file_counter, disk, view, page_reqs,
                   candle_reqs, written, unslept>>
    /\ UNCHANGED featVars

FetchRaises_Appends(resp) ==
    /\ InLoop
    /\ ~IsNone(m.end_time)
    /\ resp.err # "none"
    /\ candle_reqs' = Append(candle_reqs, CandleReq)
    /\ unslept' = TRUE
    /\ outcomes' = Append(outcomes, Outcome(resp.err, <<>>))
    /\ all_dfs' = Append(all_dfs, [src |-> idx, rows |-> <<>>])
    /\ idx' = idx + 1
    /\ UNCHANGED <<catalog, WRITE_EVERY, pc, run, error, conn, suitable_markets,
                   offset, file_counter, disk, view, page_reqs, written>>
    /\ UNCHANGED featVars

\* lines 92-111 when get_candlesticks raises: the sleep of line 99 is not
\* reached, either handler ends the turn
FetchRaises(resp) ==
    /\ InLoop
    /\ ~IsNone(m.end_time)
    /\ resp.err # "none"
    /\ candle_reqs' = Append(candle_reqs, CandleReq)
    /\ unslept' = TRUE
    /\ outcomes' = Append(outcomes, Outcome(resp.err, <<>>))
    /\ idx' = idx + 1
    /\ UNCHANGED <<catalog, WRITE_EVERY, pc, run, error, conn, suitable_markets,
                   offset, all_dfs, file_counter, disk, view, page_reqs, written>>
    /\ UNCHANGED featVars

\* lines 92-99 and 113-125: the fetch succeeds and flattens to no row
SkipNoRows(resp) ==
    /\ InLoop
    /\ ~IsNone(m.end_time)
    /\ resp.err = "none"
    /\ FlattenRows(resp.streams) = <<>>
    /\ candle_reqs' = Append(candle_reqs, CandleReq)
    /\ unslept' = FALSE
    /\ outcomes' = Append(outcomes, Outcome("no_rows", <<>>))
    /\ idx' = idx + 1
    /\ UNCHANGED <<catalog, WRITE_EVERY, pc, run, error, conn, suitable_markets,
                   offset, all_dfs, file_counter, disk, view, page_reqs, written>>
    /\ UNCHANGED featVars

\* lines 92-99 and 113-185: the fetch succeeds with rows; derive, append,
\* and flush when line 178 says so
AppendMarket(resp) ==
    /\ InLoop
    /\ ~IsNone(m.end_time)
    /\ resp.err = "none"
    /\ FlattenRows(resp.streams) # <<>>
    /\ candle_reqs' = Append(candle_reqs, CandleReq)
    /\ unslept' = FALSE
    /\ LET frame == Derive(m, FlattenRows(resp.streams))
           acc == Append(all_dfs, [src |-> idx, rows |-> frame])
       IN /\ outcomes' = Append(outcomes, Outcome("appended", frame))
          /\ IF FlushDue(idx)
             THEN /\ disk' = WriteParquet(disk, file_counter, ConcatBatch(acc))
                  /\ written' = Append(written, file_counter)
                  /\ all_dfs' = <<>>
                  /\ file_counter' = file_counter + 1
             ELSE /\ all_dfs' = acc
                  /\ UNCHANGED <<disk, written, file_counter>>
    /\ idx' = idx + 1
    /\ UNCHANGED <<catalog, WRITE_EVERY, pc, run, error, conn, suitable_markets,
                   offset, view, page_reqs>>
    /\ UNCHANGED featVars

FinalFlush_NoWrite ==
    /\ pc = "process"
    /\ idx = Len(suitable_markets)
    /\ pc' = "view"
    /\ UNCHANGED <<catalog, WRITE_EVERY, run, error, conn, suitable_markets, offset,
                   idx, all_dfs, file_counter, disk, view, page_reqs, candle_reqs,
                   outcomes, written, unslept>>
    /\ UNCHANGED featVars

\* lines 187-193, reached when the for loop is exhausted
FinalFlush ==
    /\ pc = "process"
    /\ idx = Len(suitable_markets)
    /\ IF all_dfs # <<>>
       THEN /\ disk' = WriteParquet(disk, file_counter, ConcatBatch(all_dfs))
            /\ written' = Append(written, file_counter)
            /\ file_counter' = file_counter + 1
       ELSE UNCHANGED <<disk, written, file_counter>>
    /\ pc' = "view"
    /\ UNCHANGED <<catalog, WRITE_EVERY, run, error, conn, suitable_markets, offset,
                   idx, all_dfs, view, page_reqs, candle_reqs, outcomes, unslept>>
    /\ UNCHANGED featVars

\* line 196: CREATE VIEW binds its query, and read_parquet over a pattern
\* that matches no file raises duckdb's IOException, which nothing catches
PublishView ==
    /\ pc = "view"
    /\ IF DOMAIN disk = {}
       THEN /\ error' = "IOException"
            /\ pc' = "aborted"
            /\ UNCHANGED view
       ELSE /\ view' = view + 1
            /\ pc' = "close"
            /\ UNCHANGED error
    /\ UNCHANGED <<catalog, WRITE_EVERY, run, conn, suitable_markets, offset,
                   idx, all_dfs, file_counter, disk, page_reqs, candle_reqs,
                   outcomes, written, unslept>>
    /\ UNCHANGED featVars

Close_StaysOpen ==
    /\ pc = "close"
    /\ pc' = "done"
    /\ UNCHANGED <<catalog, WRITE_EVERY, run, error, conn, suitable_markets, offset,
                   idx, all_dfs, file_counter, disk, view, page_reqs, candle_reqs,
                   outcomes, written, unslept>>
    /\ UNCHANGED featVars

\* lines 198-199
Close ==
    /\ pc = "close"
    /\ conn' = "closed"
    /\ pc' = "done"
    /\ UNCHANGED <<catalog, WRITE_EVERY, run, error, suitable_markets, offset, idx,
                   all_dfs, file_counter, disk, view, page_reqs, candle_reqs,
                   outcomes, written, unslept>>
    /\ UNCHANGED featVars

Next ==
    \/ Connect
    \/ FetchPage
    \/ PageFails
    \/ ExitLoop
    \/ CheckSuitable
    \/ SkipNoEndTime
    \/ \E resp \in CandleResponses : FetchRaises(resp)
    \/ \E resp \in CandleResponses : SkipNoRows(resp)
    \/ \E resp \in CandleResponses : AppendMarket(resp)
    \/ FinalFlush
    \/ PublishView
    \/ Close

Spec == Init /\ [][Next]_vars

----------------------------------------------------------------------------
(* Discovery on its own, lines 36-74, over longer catalogs and over short  *)
(* catalogs of every market shape                                          *)

InitDisc ==
    /\ catalog \in SeqsUpTo(PipelineMarkets, MaxDiscCatalog)
                     \cup SeqsUpTo(RichMarkets, MaxRichCatalog)
    /\ WRITE_EVERY = 1
    /\ run = 1
    /\ disk = <<>>
    /\ InMemoryInit
    /\ FeatIdle

NextDisc ==
    \/ Connect
    \/ FetchPage
    \/ PageFails
    \/ ExitLoop
    \/ CheckSuitable

SpecDisc == InitDisc /\ [][NextDisc]_vars

\* main() is one thread that runs to its end: a step that can be taken is
\* taken
SpecDiscFair == InitDisc /\ [][NextDisc]_vars /\ WF_vars(NextDisc)

----------------------------------------------------------------------------
(* main() started again against the OUT_DIR the earlier run left: lines    *)
(* 204-205 run as a new process, every variable of main() is fresh, the    *)
(* files are still there                                                   *)

\* short catalogs, and one that fills the target with markets lacking end_time
InitRerun ==
    /\ catalog \in SeqsUpTo(PipelineMarkets, MaxRerunCatalog)
                     \cup {[i \in 1..MAX_MARKETS |-> mNoEnd]}
    /\ WRITE_EVERY \in 1..MaxWriteEvery
    /\ run = 1
    /\ disk = <<>>
    /\ InMemoryInit
    /\ FeatIdle

Restart ==
    /\ pc \in {"done", "aborted"}
    /\ run < MaxRuns
    /\ run' = run + 1
    /\ pc' = "start"
    /\ error' = "none"
    /\ conn' = "none"
    /\ suitable_markets' = <<>>
    /\ offset' = 0
    /\ idx' = 0
    /\ all_dfs' = <<>>
    /\ file_counter' = 0
    /\ view' = 0
    /\ page_reqs' = <<>>
    /\ candle_reqs' = <<>>
    /\ outcomes' = <<>>
    /\ written' = <<>>
    /\ unslept' = FALSE
    /\ UNCHANGED <<catalog, WRITE_EVERY, disk>>
    /\ UNCHANGED featVars

NextRerun == Next \/ Restart

SpecRerun == InitRerun /\ [][NextRerun]_vars

----------------------------------------------------------------------------
(* The feature derivation of one market on its own, a step at a time: the  *)
(* inputs are the flattened rows of line 120 for a market with an end_time *)

RichQuotes ==
    { Quote(b, a, p) :
        b \in {RNone, RNum(700), RNum(1100)},
        a \in {RStr("abc"), RNum(500), RStr("1.30")},
        p \in {RNone, RNum(420), RNum(-200)} }

PlainQuotes == {qMid, qPrice}

\* rows as lines 113-120 leave them; newest first when desc, else oldest first
RawRows(qs, desc) ==
    [i \in 1..Len(qs) |->
        [end_period_ts |-> IF desc THEN 10 * (Len(qs) + 1 - i) ELSE 10 * i,
         volume |-> 5 * (i % 2),
         token_id |-> "tokY",
         price |-> qs[i].price,
         yes_ask |-> qs[i].yes_ask,
         yes_bid |-> qs[i].yes_bid]]

FeatInputs ==
    {RawRows(qs, TRUE) : qs \in SeqsUpTo(RichQuotes, MaxRichRows) \ {<<>>}}
      \cup {RawRows(qs, d) : qs \in SeqsUpTo(PlainQuotes, MaxRows) \ {<<>>},
                             d \in BOOLEAN}

InitFeat ==
    /\ catalog = <<mYes>>
    /\ WRITE_EVERY = 1
    /\ run = 1
    /\ disk = <<>>
    /\ InMemoryInit
    /\ raw_rows \in FeatInputs
    /\ df = <<>>
    /\ fpc = "rows"

\* lines 127-138
FNormalize ==
    /\ fpc = "rows"
    /\ raw_rows # <<>>
    /\ df' = Normalize(raw_rows)
    /\ fpc' = "numeric"
    /\ UNCHANGED raw_rows
    /\ UNCHANGED pipeVars

\* lines 141-143
FMidPrice ==
    /\ fpc = "numeric"
    /\ df' = MidPrice(df)
    /\ fpc' = "mid"
    /\ UNCHANGED raw_rows
    /\ UNCHANGED pipeVars

\* lines 145-156
FSpreadAttrs ==
    /\ fpc = "mid"
    /\ df' = Attrs(Spread(df), mYes)
    /\ fpc' = "attrs"
    /\ UNCHANGED raw_rows
    /\ UNCHANGED pipeVars

\* lines 158-163
FClamp ==
    /\ fpc = "attrs"
    /\ df' = Clamp(df)
    /\ fpc' = "clamped"
    /\ UNCHANGED raw_rows
    /\ UNCHANGED pipeVars

\* lines 165-171
FSequential ==
    /\ fpc = "clamped"
    /\ df' = Sequential(df, mYes)
    /\ fpc' = "done"
    /\ UNCHANGED raw_rows
    /\ UNCHANGED pipeVars

NextFeat ==
    \/ FNormalize
    \/ FMidPrice
    \/ FSpreadAttrs
    \/ FClamp
    \/ FSequential

SpecFeat == InitFeat /\ [][NextFeat]_vars

----------------------------------------------------------------------------
(* Properties *)

Take(sq, n) == SubSeq(sq, 1, Min(n, Len(sq)))

Range(sq) == {sq[i] : i \in 1..Len(sq)}

\* discovery has ended, by an empty page or by reaching the target
DiscoveryOver ==
    \/ pc \in {"process", "view", "close", "done"}
    \/ pc = "aborted" /\ error \in {"RuntimeError", "IOException"}

NoSkips == \A i \in 1..Len(outcomes) : outcomes[i].kind = "appended"

\* the rows of the markets srcs, in that order, as the run derived them
RowsOf(srcs) == Flatten([j \in 1..Len(srcs) |-> outcomes[srcs[j] + 1].rows])

\* C1: the accumulator never holds more than WRITE_EVERY row-sets, no
\* partition holds more than that, and every partition of the run other than
\* its last holds the row-sets of exactly WRITE_EVERY markets, skipped markets
\* or not.
C1_FlushAtThreshold ==
    /\ Len(all_dfs) <= WRITE_EVERY
    /\ \A k \in 1..Len(written) :
          /\ Len(disk[written[k]].srcs) <= WRITE_EVERY
          /\ k < Len(written) => Len(disk[written[k]].srcs) = WRITE_EVERY

\* C2: when no market is skipped, a finished run over N markets with
\* threshold W has written exactly ceil(N/W) partitions, numbered 0, 1, ...
\* in write order; partition k holds the rows of the W consecutive markets
\* k*W .. k*W+W-1, the last one the remaining N mod W when that is not 0.
C2_PartitionCount ==
    (NoSkips /\ pc \in {"view", "close", "done"}) =>
        LET N == Len(suitable_markets)
            W == WRITE_EVERY
            full == N \div W
            cnt == IF N % W > 0 THEN full + 1 ELSE full
            size(k) == IF k <= full THEN W ELSE N % W
            srcs(k) == [j \in 1..size(k) |-> (k - 1) * W + j - 1]
        IN /\ written = [k \in 1..cnt |-> k - 1]
           /\ file_counter = cnt
           /\ DOMAIN disk = 0..(cnt - 1)
           /\ \A k \in 1..cnt :
                 /\ disk[k - 1].srcs = srcs(k)
                 /\ disk[k - 1].rows = RowsOf(srcs(k))

C2_Witness ==
    /\ pc = "done"
    /\ NoSkips
    /\ WRITE_EVERY = 3
    /\ Len(suitable_markets) = 4
    /\ \A i \in 1..Len(outcomes) : Len(outcomes[i].rows) = 1
    /\ written = <<0, 1>>
    /\ Len(disk[0].rows) = 3
    /\ Len(disk[1].rows) = 1

FetchFailed(o) == o.kind \in {"ValueError", "Exception"}

\* C3: a market whose candlestick fetch raised (ValueError or any other
\* exception) has no row-set in the accumulator or in any partition; the turn
\* that handles the error leaves the accumulator, the partition counter and
\* the files as they were and moves on to the next market; a finished run has
\* visited every market.
C3_SkipIsolation ==
    /\ [](/\ \A i \in 1..Len(outcomes) :
               FetchFailed(outcomes[i]) =>
                  /\ \A k \in 1..Len(all_dfs) : all_dfs[k].src # i - 1
                  /\ \A n \in DOMAIN disk : (i - 1) \notin Range(disk[n].srcs)
          /\ pc = "done" => Len(outcomes) = Len(suitable_markets))
    /\ [][(Len(outcomes') = Len(outcomes) + 1 /\ FetchFailed(Last(outcomes'))) =>
             /\ all_dfs' = all_dfs
             /\ file_counter' = file_counter
             /\ disk' = disk
             /\ pc' = "process"
             /\ idx' = idx + 1]_vars

C3_Witness ==
    /\ pc = "done"
    /\ \E i \in 1..(Len(outcomes) - 2) :
          /\ outcomes[i].kind = "ValueError"
          /\ outcomes[i + 1].kind = "Exception"
          /\ outcomes[i + 2].kind = "appended"
          /\ \E n \in DOMAIN disk : (i + 1) \in Range(disk[n].srcs)

\* C4: when discovery ends with no eligible market, the run has aborted with
\* the RuntimeError of line 69, no candlestick request was made, no partition
\* was written and the view was not published.
C4_FatalOnEmpty ==
    (suitable_markets = <<>> /\ pc \notin {"start", "discover", "post"}
       /\ error # "ProviderError") =>
        /\ pc = "aborted"
        /\ error = "RuntimeError"
        /\ candle_reqs = <<>>
        /\ written = <<>>
        /\ disk = <<>>
        /\ view = 0

C4_Witness ==
    /\ pc = "aborted"
    /\ error = "RuntimeError"
    /\ Len(page_reqs) = 1
    /\ page_reqs[1].n = 0
    /\ catalog = <<>>

\* C5: a partition file, once written, keeps its content for good, and each
\* flush writes under a file name that did not exist, within a run and when
\* main() is run again on the same OUT_DIR.
C5_WriteOnce ==
    [][/\ \A n \in DOMAIN disk : n \in DOMAIN disk' /\ disk'[n] = disk[n]
       /\ Len(written') = Len(written) + 1 => Last(written') \notin DOMAIN disk]_vars

----------------------------------------------------------------------------
(* The eligibility the filter is meant to compute, spelled without lower() *)

UpperChar(c) ==
    CASE c = "y" -> "Y"
      [] c = "e" -> "E"
      [] c = "s" -> "S"
      [] c = "n" -> "N"
      [] c = "o" -> "O"
      [] OTHER -> c

\* lbl is the word w up to the case of its letters
IsWord(lbl, w) ==
    /\ ~IsNone(lbl)
    /\ Len(Val(lbl)) = Len(w)
    /\ \A i \in 1..Len(w) : Val(lbl)[i] \in {w[i], UpperChar(w[i])}

YesNoMarket(mk) ==
    /\ ~IsNone(mk.winning_side)
    /\ ~IsNone(mk.side_a)
    /\ ~IsNone(mk.side_b)
    /\ \/ IsWord(Val(mk.side_a).label, sYes) /\ IsWord(Val(mk.side_b).label, sNo)
       \/ IsWord(Val(mk.side_a).label, sNo) /\ IsWord(Val(mk.side_b).label, sYes)

\* C6: every market of the result list has a winning side and the labels
\* yes/no or no/yes up to case; and when discovery ended below the target,
\* every such market of the catalog is in the result list (a market lacking
\* winning_side, side_a, side_b or a label is not).
C6_FilterCorrect ==
    /\ \A i \in 1..Len(suitable_markets) : YesNoMarket(suitable_markets[i])
    /\ (DiscoveryOver /\ Len(suitable_markets) < MAX_MARKETS) =>
          suitable_markets = SelectSeq(catalog, YesNoMarket)

C6_Witness ==
    /\ pc = "process"
    /\ Len(catalog) = 1
    /\ catalog[1].side_a = Side(Some(<<"N", "O">>))
    /\ catalog[1].side_b = Side(Some(<<"Y", "e", "s">>))
    /\ suitable_markets = catalog

\* C7: the k-th page request is made at offset (k-1)*PAGE_LIMIT, with fewer
\* than MAX_MARKETS eligible markets found so far, and after a previous page
\* that returned markets.
C7_PageOffsets ==
    \A k \in 1..Len(page_reqs) :
        /\ page_reqs[k].offset = (k - 1) * PAGE_LIMIT
        /\ page_reqs[k].have < MAX_MARKETS
        /\ page_reqs[k].have = Len(SelectSeq(Take(catalog, page_reqs[k].offset),
                                             YesNoMarket))
        /\ k > 1 => page_reqs[k - 1].n > 0 /\ ~page_reqs[k - 1].raised

C7_Witness ==
    /\ pc = "post"
    /\ Len(page_reqs) = 4
    /\ page_reqs[4].offset = 3 * PAGE_LIMIT
    /\ page_reqs[4].n = 0

\* C8: the result list never exceeds MAX_MARKETS, and when discovery has
\* ended it is the first min(MAX_MARKETS, E) eligible markets of the catalog
\* in catalog order, E the number of eligible markets of the catalog.
C8_FirstEligible ==
    /\ Len(suitable_markets) <= MAX_MARKETS
    /\ DiscoveryOver =>
          suitable_markets = Take(SelectSeq(catalog, YesNoMarket), MAX_MARKETS)

\* the target is reached on the first market of a page whose second market
\* is eligible too
C8_Witness ==
    /\ pc = "process"
    /\ Len(suitable_markets) = MAX_MARKETS
    /\ Last(page_reqs).have = MAX_MARKETS - 1
    /\ Last(page_reqs).n = 2
    /\ YesNoMarket(catalog[Last(page_reqs).offset + 1])
    /\ YesNoMarket(catalog[Last(page_reqs).offset + 2])

----------------------------------------------------------------------------
(* Properties of the feature derivation *)

RetOnlyFirst ==
    \A i \in 1..Len(df) :
        /\ IsNone(df[i].ret_1) <=> i = 1
        /\ i > 1 => Val(df[i].ret_1) = Val(df[i].p_mkt) - Val(df[i - 1].p_mkt)

\* the ret_1 of the w rows ending at row i
Trailing(i, w) == [j \in 1..w |-> Val(df[i - w + j].ret_1)]

\* C9 as stated: ret_1 is undefined for the first row only; vol_7 is
\* undefined for rows 1 to 6 and defined from row 7 onward.
C9_AsStated ==
    fpc = "done" =>
        /\ RetOnlyFirst
        /\ \A i \in 1..Len(df) : IsNone(df[i].vol_7) <=> i <= 6

\* C9: ret_1 is undefined for the first row only; vol_7 is undefined for
\* rows 1 to 7 and defined from row 8 onward, each value computed over the
\* ret_1 of the trailing 7 rows.
C9_Windowing ==
    fpc = "done" =>
        /\ RetOnlyFirst
        /\ \A i \in 1..Len(df) :
              /\ IsNone(df[i].vol_7) <=> i <= ROLL_WINDOW
              /\ i > ROLL_WINDOW =>
                    Val(df[i].vol_7) = VarNum(Trailing(i, ROLL_WINDOW))

C9_Witness ==
    /\ fpc = "done"
    /\ Len(df) = 10
    /\ IsNone(df[7].vol_7)
    /\ ~IsNone(df[8].vol_7)
    /\ Val(df[8].vol_7) > 0
    /\ Val(df[10].vol_7) = 0

\* the mid price the claim gives for raw row r, None when it gives none
MidOf(r) ==
    LET b == ToNumeric(r.yes_bid)
        a == ToNumeric(r.yes_ask)
        p == ToNumeric(r.price)
    IN CASE ~IsNone(b) /\ ~IsNone(a) -> <<Val(b), Val(a)>>
         [] OTHER -> p

\* the pandas index of the raw rows that have a mid price, in frame order
Kept ==
    LET ix == [i \in 1..Len(raw_rows) |-> i - 1]
    IN SelectSeq(ix, LAMBDA i : ~IsNone(MidOf(raw_rows[i + 1])))

\* C10: after lines 141-143 the frame holds exactly the rows that have a mid
\* price, in order; p_mkt is the mean of bid and ask closes when both are
\* present, else the price close; the dropped rows are in no later frame.
C10_MidPrice ==
    /\ fpc = "mid" =>
          /\ [k \in 1..Len(df) |-> df[k].index] = Kept
          /\ \A k \in 1..Len(df) :
                LET mid == MidOf(raw_rows[df[k].index + 1])
                IN /\ ~IsNone(df[k].p_mkt)
                   /\ IF Len(mid) = 2
                      THEN 2 * Val(df[k].p_mkt) = mid[1] + mid[2]
                      ELSE Val(df[k].p_mkt) = mid[1]
    /\ fpc \in {"attrs", "clamped", "done"} =>
          {df[k].index : k \in 1..Len(df)} = Range(Kept)

C10_Witness ==
    /\ fpc = "mid"
    /\ Len(raw_rows) = 2
    /\ Len(df) = 1
    /\ df[1].index = 1
    /\ IsNone(df[1].bid_close)
    /\ IsNone(df[1].ask_close)
    /\ df[1].p_mkt = Some(420)


\* the p_mkt the claim gives for raw row r before the clamp, in the model's
\* thousandths; only asked of rows that have a mid price
PreClamp(r) ==
    LET mid == MidOf(r)
    IN IF Len(mid) = 2 THEN (mid[1] + mid[2]) \div 2 ELSE mid[1]

\* C11: from the clamp of line 163 on, every row of the frame has p_mkt in
\* [0.0, 1.0]: a value above 1 before the clamp is 1.0, one below 0 is 0.0,
\* any other is kept; and the clamp drops no row, so a market with values
\* out of range goes on to be appended like any other.
C11_Clamped ==
    fpc \in {"clamped", "done"} =>
        /\ {df[k].index : k \in 1..Len(df)} = Range(Kept)
        /\ \A k \in 1..Len(df) :
              LET pre == PreClamp(raw_rows[df[k].index + 1])
                  p == Val(df[k].p_mkt)
              IN /\ 0 <= p /\ p <= 1000
                 /\ pre > 1000 => p = 1000
                 /\ pre < 0 => p = 0
                 /\ (0 <= pre /\ pre <= 1000) => p = pre

C11_Witness ==
    /\ fpc = "done"
    /\ Len(df) = 2
    /\ \E k \in 1..2 :
          /\ PreClamp(raw_rows[df[k].index + 1]) = 1200
          /\ df[k].p_mkt = Some(1000)
    /\ \E k \in 1..2 :
          /\ PreClamp(raw_rows[df[k].index + 1]) = -200
          /\ df[k].p_mkt = Some(0)

\* C12: from line 145 on, a row with both bid and ask closes present has
\* spread = max(ask - bid, 0), never negative; a row lacking either has no
\* spread.
C12_Spread ==
    fpc \in {"attrs", "clamped", "done"} =>
        \A k \in 1..Len(df) :
            LET r == raw_rows[df[k].index + 1]
                b == ToNumeric(r.yes_bid)
                a == ToNumeric(r.yes_ask)
            IN IF ~IsNone(b) /\ ~IsNone(a)
               THEN /\ ~IsNone(df[k].spread)
                    /\ Val(df[k].spread) >= 0
                    /\ Val(df[k].spread) >= Val(a) - Val(b)
                    /\ Val(df[k].spread) \in {0, Val(a) - Val(b)}
               ELSE IsNone(df[k].spread)

\* bid 0.7 and ask 0.5 give 0.0; a row with no ask has no spread
C12_Witness ==
    /\ fpc = "done"
    /\ Len(df) = 2
    /\ \E k \in 1..2 :
          /\ df[k].bid_close = Some(700)
          /\ df[k].ask_close = Some(500)
          /\ df[k].spread = Some(0)
    /\ \E k \in 1..2 :
          /\ IsNone(df[k].ask_close)
          /\ IsNone(df[k].spread)


----------------------------------------------------------------------------
(* Properties of the run as a whole *)

\* the for loop of line 75 has been entered
Processing == suitable_markets # <<>> /\ DiscoveryOver

\* C13: once discovery has found a market, the run does not abort whatever
\* markets are skipped; the markets are visited once each in order, no
\* market's candlesticks are requested twice, and a run past the loop ends
\* with the view published and the connection closed.
C13_SkipsNeverAbort ==
    Processing =>
        /\ pc # "aborted"
        /\ Len(outcomes) = idx
        /\ \A j, k \in 1..Len(candle_reqs) :
              j < k => candle_reqs[j].idx < candle_reqs[k].idx
        /\ pc = "done" =>
              /\ Len(outcomes) = Len(suitable_markets)
              /\ view = 1
              /\ conn = "closed"


\* C14: the connection is opened once, before any provider call; a finished
\* run has published the view once and then closed the connection once; no
\* partition is written once the view is published, and nothing is written
\* or published once the connection is closed.
C14_ConnLifecycle ==
    /\ [](/\ (page_reqs # <<>> \/ candle_reqs # <<>>) => conn # "none"
          /\ view <= 1
          /\ pc = "done" => view = 1 /\ conn = "closed"
          /\ conn = "closed" => pc = "done")
    /\ [][/\ conn' # conn =>
                \/ /\ conn = "none"
                   /\ conn' = "open"
                   /\ page_reqs = <<>>
                   /\ candle_reqs = <<>>
                \/ /\ conn = "open"
                   /\ conn' = "closed"
                   /\ view = 1
          /\ view >= 1 => disk' = disk /\ written' = written
          /\ conn = "closed" => disk' = disk /\ view' = view /\ conn' = conn]_vars

C14_Witness ==
    /\ pc = "done"
    /\ conn = "closed"
    /\ view = 1
    /\ written = <<0, 1>>
    /\ Len(page_reqs) = 3

\* C15: a provider call (catalog page or candlesticks) is issued only when
\* the call before it, whatever its result, has been followed by the sleep.
C15_SleepAfterCall ==
    [][(Len(page_reqs') > Len(page_reqs) \/ Len(candle_reqs') > Len(candle_reqs))
          => ~unslept]_vars

\* C16: a market without end_time gets no candlestick request and no entry in
\* the accumulator or in a partition; the turn that visits it changes neither
\* the requests, the accumulator, the counter nor the files, raises nothing
\* and moves on to the next market.
C16_NoEndTimeSkip ==
    /\ [](\A i \in 1..Len(outcomes) :
             IsNone(suitable_markets[i].end_time) =>
                /\ outcomes[i].kind = "no_end_time"
                /\ \A k \in 1..Len(candle_reqs) : candle_reqs[k].idx # i - 1
                /\ \A k \in 1..Len(all_dfs) : all_dfs[k].src # i - 1
                /\ \A n \in DOMAIN disk : (i - 1) \notin Range(disk[n].srcs))
    /\ [][(InLoop /\ IsNone(m.end_time) /\ idx' # idx) =>
             /\ candle_reqs' = candle_reqs
             /\ all_dfs' = all_dfs
             /\ file_counter' = file_counter
             /\ disk' = disk
             /\ error' = "none"
             /\ pc' = "process"
             /\ idx' = idx + 1]_vars

C16_Witness ==
    /\ pc = "done"
    /\ Len(outcomes) = 3
    /\ outcomes[1].kind = "appended"
    /\ outcomes[2].kind = "no_end_time"
    /\ outcomes[3].kind = "appended"
    /\ Len(candle_reqs) = 2

\* the markets of the run that were not skipped, by index, in visiting order
Appended ==
    LET ix == [i \in 1..Len(outcomes) |-> i - 1]
    IN SelectSeq(ix, LAMBDA i : outcomes[i + 1].kind = "appended")

\* the partitions this run wrote, in write order
Parts == [k \in 1..Len(written) |-> disk[written[k]]]

\* C17: past the final flush, the partitions of the run are numbered 0, 1,
\* ... in write order, and read in that order they hold the row-sets of the
\* markets that were not skipped, each once, in discovery order; what the
\* accumulator still holds is in the last partition.
C17_NothingLost ==
    pc \in {"view", "close", "done"} =>
        /\ written = [k \in 1..Len(written) |-> k - 1]
        /\ Flatten([k \in 1..Len(Parts) |-> Parts[k].srcs]) = Appended
        /\ Flatten([k \in 1..Len(Parts) |-> Parts[k].rows]) = RowsOf(Appended)
        /\ all_dfs # <<>> =>
              [k \in 1..Len(all_dfs) |-> all_dfs[k].src] = Last(Parts).srcs

C17_Witness ==
    /\ pc = "done"
    /\ WRITE_EVERY = 2
    /\ Appended = <<0, 1, 3>>
    /\ written = <<0, 1>>
    /\ Parts[1].srcs = <<0, 1>>
    /\ Parts[2].srcs = <<3>>
    /\ Len(Parts[1].rows) = 3

\* C18: every row-set in the accumulator has a row, and so has every
\* partition file.
C18_NoEmptyRowSet ==
    /\ \A k \in 1..Len(all_dfs) : all_dfs[k].rows # <<>>
    /\ \A n \in DOMAIN disk : disk[n].rows # <<>>


\* C19: over a catalog that ends (a page comes back empty) or that holds
\* MAX_MARKETS eligible markets, the discovery loop, once entered, is left;
\* and no offset is requested twice.
C19_DiscoveryEnds ==
    /\ (pc = "discover") ~> (pc \notin {"start", "discover"})
    /\ [](\A j, k \in 1..Len(page_reqs) :
             j < k => page_reqs[j].offset # page_reqs[k].offset)

\* the loop left because the target was reached on a page that had markets
C19_Witness ==
    /\ pc = "post"
    /\ Len(suitable_markets) = MAX_MARKETS
    /\ Len(page_reqs) = 3
    /\ Last(page_reqs).n > 0
    /\ Len(catalog) = 6

====
